---- MODULE Spec2Model ----
(***************************************************************************)
(* A model of the animation pipeline of GenAI-Video-2:                     *)
(*   - the video provider fallback engine and its poll loop                *)
(*     (services/animation/klingAIService.js, in its Replicate version and *)
(*     in its Fal.ai version);                                             *)
(*   - the clip and timeline assembly and the job pipeline                 *)
(*     (services/animation/animationService.js).                           *)
(* Each component's state is one record-valued variable; every function of *)
(* the source is an operator from the state at its entry to the state at   *)
(* the next point where the code awaits the outside world.                 *)
(***************************************************************************)
EXTENDS Integers, Sequences, FiniteSets, TLC

VARIABLES kling, job, area, rerun, async

vars == <<kling, job, area, rerun, async>>

Min(a, b) == IF a < b THEN a ELSE b

RECURSIVE Pow2(_)
Pow2(n) == IF n = 0 THEN 1 ELSE 2 * Pow2(n - 1)

(***************************************************************************)
(* Error messages are sequences of parts: `${prefix}: ${error.message}`    *)
(* puts a part in front of the message it wraps.                           *)
(***************************************************************************)
Wrap(prefix, message) == <<prefix>> \o message

(***************************************************************************)
(* klingAIService.js                                                       *)
(***************************************************************************)

\* defaultSettings
maxRetries == 3

pollInterval == 10000

maxPollAttempts == 60

maxRetryDelay == 30000

\* generateVideoWithFallback: const maxRetries = 3, and the base of its backoff
maxStrategyAttempts == 3

strategyBaseDelay == 2000

httpBaseDelay == 1000

\* What the outside world can report as the cause of a failure.
Reasons == {"r1", "r2"}

\* A motion description is its comma-separated clauses, split(',') of the text.
MotionDescriptions == {<<"m1">>, <<"m1", "m2">>}

\* The bodies the Kling API can answer a request with.
KlingResponses ==
    [code : {0}, status : {"submitted", "processing", "paused"}, reason : {"none"}, hasVideo : {FALSE}]
      \cup [code : {0}, status : {"succeed"}, reason : {"none"}, hasVideo : BOOLEAN]
      \cup [code : {0}, status : {"failed"}, reason : Reasons \cup {"none"}, hasVideo : {FALSE}]
      \cup [code : {1}, status : {"none"}, reason : Reasons, hasVideo : {FALSE}]

InitKling(v) ==
    [variant |-> v, pc |-> "idle", attempt |-> 0, motionDescription |-> <<>>,
     calls |-> <<>>, backoffs |-> <<>>, lastError |-> <<>>, callError |-> <<>>,
     result |-> "none", error |-> <<>>,
     httpFor |-> "none", httpAttempt |-> 0, httpRequests |-> 0, httpDelay |-> 0,
     httpErrors |-> <<>>, httpLog |-> <<>>,
     attempts |-> 0, pollRounds |-> 0, pollDelay |-> 0,
     sawFailed |-> FALSE, sawSucceed |-> FALSE, onlyErrors |-> FALSE, pollEnd |-> "none"]

\* The call of a provider that is in flight is the last of calls.
SetLastCall(k, outcome) ==
    [k EXCEPT !.calls = [@ EXCEPT ![Len(@)] = [@ EXCEPT !.outcome = outcome]]]

\* (A variant whose backoff would start at the base delay.)
StrategyDelayFromBase(attempt) == Pow2(attempt - 1) * strategyBaseDelay

\* generateVideoWithFallback: const delay = Math.pow(2, attempt) * 2000
StrategyDelay(attempt) == Pow2(attempt) * strategyBaseDelay

\* generateVideoWithFallback, the catch block of one strategy attempt and the
\* throw after the loop.
FallbackCatchFirstError(k, error) ==
    LET last == IF k.lastError = <<>> THEN error ELSE k.lastError
    IN IF k.attempt < maxStrategyAttempts
       THEN [k EXCEPT !.lastError = last, !.pc = "backoff",
                      !.backoffs = Append(@, StrategyDelay(k.attempt))]
       ELSE [k EXCEPT !.lastError = last, !.pc = "failed",
                      !.error = Wrap("video generation failed after 3 attempts", last)]

FallbackCatch(k, error) ==
    IF k.attempt < maxStrategyAttempts
    THEN [k EXCEPT !.lastError = error, !.pc = "backoff",
                   !.backoffs = Append(@, StrategyDelay(k.attempt))]
    ELSE [k EXCEPT !.lastError = error, !.pc = "failed",
                   !.error = Wrap("video generation failed after 3 attempts", error)]

\* The function a strategy attempt calls, and the prompt it hands to it.
StrategyFunction(k) ==
    IF k.attempt = 1
    THEN (IF k.variant = "replicate" THEN "generateVideoWithCameraControl"
                                     ELSE "generateVideoViaFalAI")
    ELSE "generateVideo"

SimplePromptLastClause(motion) ==
    <<"Disney animation: ", motion[Len(motion)], " with mood">>

SimplePrompt(motion) == <<"Disney animation: ", motion[1], " with mood">>

StrategyPrompt(k) ==
    IF k.attempt < 3 THEN k.motionDescription ELSE SimplePrompt(k.motionDescription)

\* Whether the strategy's function falls back to the direct Kling API when its
\* primary provider fails: generateVideoWithCameraControl and generateVideo do,
\* a bare generateVideoViaFalAI does not.
HasDirectFallback(k) == StrategyFunction(k) # "generateVideoViaFalAI"

\* The catch block of generateVideoWithCameraControl and of generateVideo.
StrategyCatch(k, error) ==
    IF StrategyFunction(k) = "generateVideoWithCameraControl"
    THEN FallbackCatch(k, Wrap("Failed to generate video with camera control", error))
    ELSE FallbackCatch(k, Wrap("Failed to generate video", error))

\* The catch block of generateVideoViaDirect and generateVideoWithCameraControlDirect.
DirectCatch(k, error) ==
    LET e == Wrap("Failed to generate video via direct API", error)
    IN StrategyCatch([SetLastCall(k, "failed") EXCEPT !.callError = e, !.httpFor = "none"], e)

\* A successful return of a provider, handed up through the strategy to the caller.
ProviderReturn(k) ==
    [SetLastCall(k, "ok") EXCEPT !.pc = "done", !.httpFor = "none",
         !.result = [provider |-> k.calls[Len(k.calls)].provider, attempt |-> k.attempt]]

\* makeAuthenticatedRequest up to its first axios call.
makeAuthenticatedRequest(k, for) ==
    [k EXCEPT !.pc = "http", !.httpFor = for, !.httpAttempt = 1, !.httpRequests = 1,
              !.httpDelay = 0]

\* One loop iteration of a strategy attempt up to the call of the primary provider.
StartStrategy(k) ==
    [k EXCEPT !.pc = "primary",
              !.calls = Append(@, [attempt |-> k.attempt, provider |-> "primary",
                                   fn |-> StrategyFunction(k), prompt |-> StrategyPrompt(k),
                                   outcome |-> "pending"])]

\* generateVideoViaDirect / generateVideoWithCameraControlDirect up to the POST.
StartDirect(k) ==
    makeAuthenticatedRequest(
        [k EXCEPT !.calls = Append(@, [attempt |-> k.attempt, provider |-> "direct",
                                       fn |-> StrategyFunction(k), prompt |-> StrategyPrompt(k),
                                       outcome |-> "pending"])],
        "submit")

\* The primary provider (replicate.run / fal.subscribe) threw or returned no URL.
PrimaryFailed(k, error) ==
    LET k1 == [SetLastCall(k, "failed") EXCEPT !.callError = error]
    IN IF HasDirectFallback(k) THEN StartDirect(k1) ELSE FallbackCatch(k1, error)

\* min(pollInterval * 1.5^n, 30000); once the product passes the cap it stays there.
RECURSIVE ScaledDelay(_, _)
ScaledDelay(delay, n) ==
    IF n = 0 \/ delay >= maxRetryDelay THEN Min(delay, maxRetryDelay)
    ELSE ScaledDelay((delay * 3) \div 2, n - 1)

\* pollVideoGeneration: one GET of the task's status.
PollRequest(k) ==
    makeAuthenticatedRequest(
        [k EXCEPT !.pollRounds = @ + 1], "poll")

\* pollVideoGeneration up to its first status request.
pollVideoGeneration(k) ==
    PollRequest([k EXCEPT !.attempts = 0, !.pollRounds = 0, !.pollDelay = 0,
                          !.sawFailed = FALSE, !.sawSucceed = FALSE,
                          !.onlyErrors = TRUE, !.pollEnd = "polling"])

\* The end of a loop iteration that did not return or throw, and the throw after
\* the loop. (onlyErrors: every iteration of this call so far ended in the catch.)
PollNext(k) ==
    IF k.attempts < maxPollAttempts - 1
    THEN [k EXCEPT !.attempts = @ + 1, !.pollDelay = pollInterval, !.pc = "pollSleep",
                   !.onlyErrors = FALSE]
    ELSE DirectCatch([k EXCEPT !.attempts = @ + 1, !.pollEnd = "timed out",
                               !.onlyErrors = FALSE],
                     <<"Video generation timed out after 60 attempts">>)

\* The catch block inside the poll loop.
PollCatchNoCount(k, error) ==
    [k EXCEPT !.pollDelay = ScaledDelay(pollInterval, k.attempts + 1), !.pc = "pollSleep"]

PollCatch(k, error) ==
    IF k.attempts + 1 >= maxPollAttempts
    THEN DirectCatch([k EXCEPT !.attempts = @ + 1, !.pollEnd = "polling failed"],
                     Wrap("Video generation polling failed", error))
    ELSE [k EXCEPT !.attempts = @ + 1,
                   !.pollDelay = ScaledDelay(pollInterval, k.attempts + 1),
                   !.pc = "pollSleep"]

\* The body of the poll loop on a response of the status request.
PollResponse(k, r) ==
    IF r.code # 0 THEN PollNext(k)
    ELSE IF r.status = "succeed"
         THEN (IF r.hasVideo
               THEN ProviderReturn([k EXCEPT !.sawSucceed = TRUE, !.onlyErrors = FALSE,
                                             !.pollEnd = "success"])
               ELSE PollCatch([k EXCEPT !.sawSucceed = TRUE],
                              <<"Cannot read properties of undefined">>))
    ELSE IF r.status = "failed"
         THEN PollCatch([k EXCEPT !.sawFailed = TRUE],
                        <<"Video generation failed",
                          IF r.reason = "none" THEN "Unknown error" ELSE r.reason>>)
    ELSE PollNext(k)

\* generateVideoViaDirect on the response of its POST.
SubmitResponse(k, r) ==
    IF r.code = 0 THEN pollVideoGeneration(k)
    ELSE DirectCatch(k, <<"video generation failed", r.reason>>)

\* makeAuthenticatedRequest called on its own ("request"): what the call ends
\* with is handed to a caller outside the engine and kept in httpLog.
RequestReturn(k) ==
    [k EXCEPT !.pc = "httpDone", !.httpFor = "none",
              !.httpLog = Append(@, [outcome |-> "returned", requests |-> k.httpRequests,
                                     errors |-> k.httpErrors, message |-> <<>>])]

RequestThrow(k, e) ==
    [k EXCEPT !.pc = "httpDone", !.httpFor = "none",
              !.httpLog = Append(@, [outcome |-> "thrown", requests |-> k.httpRequests,
                                     errors |-> k.httpErrors, message |-> e])]

\* makeAuthenticatedRequest: axios answered.
HttpOk(k, r) ==
    IF k.httpFor = "submit" THEN SubmitResponse(k, r)
    ELSE IF k.httpFor = "poll" THEN PollResponse(k, r)
    ELSE RequestReturn(k)

\* (A variant that would make a fourth attempt.)
HttpErrorFourAttempts(k, reason) ==
    IF k.httpAttempt < maxRetries + 1
    THEN [k EXCEPT !.pc = "httpSleep", !.httpDelay = Pow2(k.httpAttempt) * httpBaseDelay]
    ELSE LET e == <<"Kling AI request failed after 3 attempts", reason>>
         IN IF k.httpFor = "submit" THEN DirectCatch(k, e)
            ELSE IF k.httpFor = "poll" THEN PollCatch(k, e)
            ELSE RequestThrow(k, e)

\* makeAuthenticatedRequest: the catch block of one attempt and the throw after
\* the loop.
HttpError(k, reason) ==
    IF k.httpAttempt < maxRetries
    THEN [k EXCEPT !.pc = "httpSleep", !.httpDelay = Pow2(k.httpAttempt) * httpBaseDelay]
    ELSE LET e == <<"Kling AI request failed after 3 attempts", reason>>
         IN IF k.httpFor = "submit" THEN DirectCatch(k, e)
            ELSE IF k.httpFor = "poll" THEN PollCatch(k, e)
            ELSE RequestThrow(k, e)

(* The actions of the fallback engine. *)

GenerateVideoWithFallback ==
    /\ kling.pc = "idle"
    /\ \E m \in MotionDescriptions :
           kling' = StartStrategy([kling EXCEPT !.attempt = 1, !.motionDescription = m])
    /\ UNCHANGED <<job, area, rerun, async>>

\* (A variant that would call the direct API although the primary provider
\* returned a video.)
PrimarySucceedsThenDirect ==
    /\ kling.pc = "primary"
    /\ kling' = StartDirect(SetLastCall(kling, "ok"))
    /\ UNCHANGED <<job, area, rerun, async>>

PrimarySucceeds ==
    /\ kling.pc = "primary"
    /\ kling' = ProviderReturn(kling)
    /\ UNCHANGED <<job, area, rerun, async>>

PrimaryFails ==
    /\ kling.pc = "primary"
    /\ \E r \in Reasons : kling' = PrimaryFailed(kling, <<r>>)
    /\ UNCHANGED <<job, area, rerun, async>>

HttpResponds ==
    /\ kling.pc = "http"
    /\ \E r \in KlingResponses : kling' = HttpOk(kling, r)
    /\ UNCHANGED <<job, area, rerun, async>>

HttpFails ==
    /\ kling.pc = "http"
    /\ \E r \in Reasons : kling' = HttpError(kling, r)
    /\ UNCHANGED <<job, area, rerun, async>>

HttpRetry ==
    /\ kling.pc = "httpSleep"
    /\ kling' = [kling EXCEPT !.pc = "http", !.httpAttempt = @ + 1, !.httpRequests = @ + 1]
    /\ UNCHANGED <<job, area, rerun, async>>

PollSleepDone ==
    /\ kling.pc = "pollSleep"
    /\ kling' = PollRequest(kling)
    /\ UNCHANGED <<job, area, rerun, async>>

BackoffDone ==
    /\ kling.pc = "backoff"
    /\ kling' = StartStrategy([kling EXCEPT !.attempt = @ + 1])
    /\ UNCHANGED <<job, area, rerun, async>>

NextKling ==
    \/ GenerateVideoWithFallback
    \/ PrimarySucceeds
    \/ PrimaryFails
    \/ HttpResponds
    \/ HttpFails
    \/ HttpRetry
    \/ PollSleepDone
    \/ BackoffDone

(***************************************************************************)
(* makeAuthenticatedRequest on its own: up to MaxRequests calls, one after *)
(* the other, each answered or failed by axios request by request. The     *)
(* failures of the call under way are kept in httpErrors.                  *)
(***************************************************************************)
MaxRequests == 2

RequestStarts ==
    /\ kling.pc \in {"idle", "httpDone"}
    /\ Len(kling.httpLog) < MaxRequests
    /\ kling' = makeAuthenticatedRequest([kling EXCEPT !.httpErrors = <<>>], "request")
    /\ UNCHANGED <<job, area, rerun, async>>

RequestFails ==
    /\ kling.pc = "http"
    /\ \E r \in Reasons : kling' = HttpError([kling EXCEPT !.httpErrors = Append(@, r)], r)
    /\ UNCHANGED <<job, area, rerun, async>>

NextHttp ==
    \/ RequestStarts
    \/ HttpResponds
    \/ RequestFails
    \/ HttpRetry

(***************************************************************************)
(* animationService.js                                                     *)
(***************************************************************************)

\* The longest story the model hands to the pipeline.
MaxScenes == 3

\* The scene numbers the story generator can answer with (z.number(): nothing
\* makes them distinct or ordered).
SceneNumbers == 1..3

\* A scene of the story: its number and whether its narration is non-blank.
Scenes == [sceneNumber : SceneNumbers, narration : BOOLEAN]

RECURSIVE SeqsUpTo(_, _)
SeqsUpTo(S, n) ==
    IF n = 0 THEN {<<>>}
    ELSE LET shorter == SeqsUpTo(S, n - 1)
         IN shorter \cup {Append(q, x) : q \in {t \in shorter : Len(t) = n - 1}, x \in S}

StoryOutputs == SeqsUpTo(Scenes, MaxScenes)

\* Times are in milliseconds. trimAndMux: fadeTime = 0.5, the subtitle lead-out
\* 0.35, the trim padding 0.3; the raw video is generated with duration 10.
fadeTime == 500

subtitleLeadOut == 350

trimPadding == 300

rawVideoDuration == 10000

msPerDay == 86400000

\* What ffprobe piped through parseFloat can give: a failed command, NaN, or a
\* number of milliseconds.
ProbeOutputs ==
    {[kind |-> "error", ms |-> 0], [kind |-> "NaN", ms |-> 0]}
      \cup [kind : {"number"}, ms : {-100, 200, 12000}]

\* `processed_scene_${sceneNumber}.mp4`
ClipPath(sceneNumber) == <<"processed_scene", sceneNumber>>

NoFile == [exists |-> FALSE, fadeIn |-> FALSE, fadeOut |-> FALSE]

NoFade == [on |-> FALSE, st |-> 0, d |-> 0]

\* The record of one call of trimAndMux, before anything has happened in it.
MuxEntry(idx, totalClips) ==
    [idx |-> idx, totalClips |-> totalClips,
     videoExists |-> FALSE, audioExists |-> FALSE, probed |-> FALSE,
     dur |-> [kind |-> "none", ms |-> 0],
     srtWritten |-> FALSE, srtEnd |-> 0, srtLeft |-> FALSE,
     ffmpegRuns |-> 0, trim |-> 0,
     fades |-> [fadeIn |-> NoFade, fadeOut |-> NoFade],
     audioFades |-> [fadeIn |-> NoFade, fadeOut |-> NoFade],
     error |-> <<>>, returned |-> FALSE]

NoMux == MuxEntry(-1, 0)

InitJob ==
    [variant |-> "plain", pc |-> "created", phases |-> <<>>, scenes |-> <<>>, i |-> 0, voiceCalls |-> 0,
     sceneImages |-> <<>>, sceneVideos |-> <<>>, narration |-> <<>>,
     processedClips |-> <<>>, clipFiles |-> [n \in SceneNumbers |-> NoFile],
     subtitles |-> {}, lastMux |-> NoMux, muxRuns |-> 0,
     manifest |-> <<>>, manifestOnDisk |-> FALSE, manifestWrites |-> 0, concatRuns |-> 0,
     finalVideoPath |-> FALSE, transient |-> FALSE, durable |-> FALSE, saved |-> FALSE,
     cleanupRuns |-> 0, reclaimed |-> FALSE, inFlight |-> 0,
     error |-> <<>>, cause |-> <<>>]

\* An awaited call of the job has settled: the request with its poll loop has
\* answered, or the media tool has exited.
Settle(j) == [j EXCEPT !.inFlight = @ - 1]

\* generateAnimation, the catch block: the transient deliverable is unlinked
\* first when assembly had returned its path.
\* (cause is the message of the first error raised, the innermost one.)
Fail(j, error) ==
    LET e == Wrap("Animation generation failed", error)
        c == <<error[Len(error)]>>
    IN IF j.finalVideoPath
       THEN [j EXCEPT !.pc = "unlinkFinal", !.inFlight = @ + 1, !.error = e, !.cause = c]
       ELSE [j EXCEPT !.pc = "failed", !.error = e, !.cause = c]

\* The catch block of a phase that throws a new Error with a fixed message: the
\* message of the error it caught (cause) is logged and left out.
PhaseCatch(j, message, cause) == [Fail(j, <<message>>) EXCEPT !.cause = <<cause>>]

\* The messages of the errors a phase can catch from the services it calls.
Causes == {"cause 1", "cause 2"}

\* assembleAnimation, the catch block.
AssembleFail(j, error) == Fail(j, Wrap("Failed to assemble animation", error))

\* audioAssets.narration.find(n => n.sceneNumber === sceneVideo.sceneNumber)
HasAudioAlways(j, sceneNumber) == TRUE

HasAudio(j, sceneNumber) ==
    \E a \in 1..Len(j.narration) : j.narration[a] = sceneNumber

\* processedClips.sort((a, b) => a.sceneNumber - b.sceneNumber): Array.prototype.sort
\* is stable, an insertion sort gives the same order.
RECURSIVE InsertClip(_, _)
InsertClip(sorted, clip) ==
    IF sorted = <<>> THEN <<clip>>
    ELSE IF sorted[Len(sorted)].sceneNumber <= clip.sceneNumber THEN Append(sorted, clip)
    ELSE Append(InsertClip(SubSeq(sorted, 1, Len(sorted) - 1), clip), sorted[Len(sorted)])

RECURSIVE SortBySceneNumber(_)
SortNone(clips) == clips

SortBySceneNumber(clips) ==
    IF clips = <<>> THEN <<>>
    ELSE InsertClip(SortBySceneNumber(SubSeq(clips, 1, Len(clips) - 1)), clips[Len(clips)])

\* assembleAnimation from the end of its loop to the spawn of the concatenation.
StartConcatNoCheck(j) ==
    LET sorted == SortBySceneNumber(j.processedClips)
    IN [j EXCEPT !.pc = "concat", !.inFlight = @ + 1, !.processedClips = sorted,
                 !.manifest = [c \in 1..Len(sorted) |-> sorted[c].path],
                 !.manifestOnDisk = TRUE, !.manifestWrites = @ + 1,
                 !.concatRuns = @ + 1]

StartConcat(j) ==
    IF j.processedClips = <<>>
    THEN AssembleFail(j, <<"No clips were successfully processed">>)
    ELSE LET sorted == SortBySceneNumber(j.processedClips)
         IN [j EXCEPT !.pc = "concat", !.inFlight = @ + 1, !.processedClips = sorted,
                      !.manifest = [c \in 1..Len(sorted) |-> sorted[c].path],
                      !.manifestOnDisk = TRUE, !.manifestWrites = @ + 1,
                      !.concatRuns = @ + 1]

\* assembleAnimation, the loop over sceneVideos from index j.i (1-based here) up
\* to the next call of trimAndMux: scenes without audio are skipped.
RECURSIVE AssemblyLoop(_)
AssemblyLoop(j) ==
    IF j.i > Len(j.sceneVideos) THEN StartConcat(j)
    ELSE IF HasAudio(j, j.sceneVideos[j.i]) THEN [j EXCEPT !.pc = "assembly", !.inFlight = @ + 1]
    ELSE AssemblyLoop([j EXCEPT !.i = @ + 1])

assembleAnimation(j) == AssemblyLoop([j EXCEPT !.i = 1, !.phases = Append(@, "assembly")])

\* (A variant whose result would depend on how many runs have been made.)
formatTimeByRun(t) == IF t.kind = "NaN" \/ t.ms < 0 THEN 0 ELSE (t.ms + Len(rerun.runs)) % msPerDay

\* formatTime of trimAndMux on a number of seconds (here in ms): NaN and
\* negative values become 0, and the time of day of that instant is printed.
formatTime(t) == IF t.kind = "NaN" \/ t.ms < 0 THEN 0 ELSE t.ms % msPerDay

\* The fade filters of trimAndMux for a clip at (0-based) idx of totalClips.
FadeInByPosition(idx, totalClips) == idx = 0

FadeOutByPosition(idx, totalClips) == idx = totalClips - 1

FadeFilters(idx, totalClips, dur) ==
    [fadeIn  |-> IF FadeInByPosition(idx, totalClips)
                 THEN [on |-> TRUE, st |-> 0, d |-> fadeTime] ELSE NoFade,
     fadeOut |-> IF FadeOutByPosition(idx, totalClips)
                 THEN [on |-> TRUE, st |-> dur - fadeTime, d |-> fadeTime] ELSE NoFade]

\* (A variant whose audio fade-out would start at the end of the audio.)
AudioFadeFiltersAtEnd(idx, totalClips, dur) ==
    [fadeIn  |-> IF idx = 0 THEN [on |-> TRUE, st |-> 0, d |-> fadeTime] ELSE NoFade,
     fadeOut |-> IF idx = totalClips - 1
                 THEN [on |-> TRUE, st |-> dur, d |-> fadeTime] ELSE NoFade]

\* The afade filters of trimAndMux (audioFadeEffects), built next to the fade
\* filters of the video in each of the three branches.
AudioFadeFilters(idx, totalClips, dur) ==
    [fadeIn  |-> IF idx = 0 THEN [on |-> TRUE, st |-> 0, d |-> fadeTime] ELSE NoFade,
     fadeOut |-> IF idx = totalClips - 1
                 THEN [on |-> TRUE, st |-> dur - fadeTime, d |-> fadeTime] ELSE NoFade]

\* (A variant that would return without unlinking the subtitle file.)
UnlinkSubtitleSkipped(muxed, unlinked) == [muxed EXCEPT !.srtLeft = TRUE, !.returned = TRUE]

\* trimAndMux, step 9 and the return: the subtitle file is unlinked, and an
\* error of unlinkSync ends the call like any other error.
UnlinkSubtitle(muxed, unlinked) ==
    IF ~unlinked
    THEN [muxed EXCEPT !.srtLeft = TRUE, !.error = <<"unlink failed">>]
    ELSE [muxed EXCEPT !.returned = TRUE]

\* trimAndMux: what one call does, given what the file system, ffprobe and
\* ffmpeg answer. idx is the 0-based index of the call's raw video; unlinked
\* tells whether unlinkSync of the subtitle file worked.
trimAndMux(idx, totalClips, videoExists, audioExists, probe, status, unlinked) ==
    LET base == [MuxEntry(idx, totalClips) EXCEPT !.videoExists = videoExists,
                                                  !.audioExists = audioExists]
    IN IF ~videoExists \/ ~audioExists
       THEN [base EXCEPT !.error = <<"ENOENT">>]
       ELSE IF probe.kind = "error"
       THEN [base EXCEPT !.probed = TRUE, !.error = <<"Command failed: ffprobe">>]
       ELSE IF probe.kind = "NaN"
       THEN [base EXCEPT !.probed = TRUE, !.dur = probe,
                         !.error = <<"Failed to parse duration">>]
       ELSE LET muxed == [base EXCEPT
                              !.probed = TRUE, !.dur = probe,
                              !.srtWritten = TRUE,
                              !.srtEnd = formatTime([probe EXCEPT !.ms = @ + subtitleLeadOut]),
                              !.ffmpegRuns = 1,
                              !.trim = probe.ms + trimPadding,
                              !.fades = FadeFilters(idx, totalClips, probe.ms),
                              !.audioFades = AudioFadeFilters(idx, totalClips, probe.ms)]
            IN IF status # 0
               THEN [muxed EXCEPT !.srtLeft = TRUE, !.error = <<"ffmpeg failed">>]
               ELSE UnlinkSubtitle(muxed, unlinked)

\* (A variant that would hand trimAndMux the position of the clip among the
\* clips processed and the number of scene videos that have an audio.)
ProcessSceneByTimelinePosition(j, videoExists, audioExists, probe, status, unlinked) ==
    LET n == j.sceneVideos[j.i]
        withAudio == {v \in 1..Len(j.sceneVideos) : HasAudio(j, j.sceneVideos[v])}
        mux == trimAndMux(Len(j.processedClips), Cardinality(withAudio),
                         videoExists, audioExists, probe, status, unlinked)
        j1 == [j EXCEPT !.lastMux = mux, !.muxRuns = @ + 1,
                        !.subtitles = IF mux.srtLeft THEN @ \cup {mux.idx + 1}
                                      ELSE @ \ {mux.idx + 1}]
    IN IF mux.error # <<>> THEN AssembleFail(j1, mux.error)
       ELSE AssemblyLoop(
                [j1 EXCEPT !.processedClips =
                               Append(@, [sceneNumber |-> n, path |-> ClipPath(n)]),
                           !.clipFiles[n] =
                               [exists |-> TRUE, fadeIn |-> mux.fades.fadeIn.on,
                                fadeOut |-> mux.fades.fadeOut.on],
                           !.i = @ + 1])

\* (A variant that would pass over a scene whose call of trimAndMux failed.)
ProcessSceneSkipsFailed(j, videoExists, audioExists, probe, status, unlinked) ==
    LET n == j.sceneVideos[j.i]
        mux == trimAndMux(j.i - 1, Len(j.sceneVideos), videoExists, audioExists, probe, status,
                         unlinked)
        j1 == [j EXCEPT !.lastMux = mux, !.muxRuns = @ + 1, !.i = @ + 1]
    IN IF mux.error # <<>> THEN AssemblyLoop(j1)
       ELSE AssemblyLoop(
                [j1 EXCEPT !.processedClips =
                               Append(@, [sceneNumber |-> n, path |-> ClipPath(n)]),
                           !.clipFiles[n] =
                               [exists |-> TRUE, fadeIn |-> mux.fades.fadeIn.on,
                                fadeOut |-> mux.fades.fadeOut.on]])

\* assembleAnimation, one loop iteration that calls trimAndMux for sceneVideos[j.i].
\* (The duration trimAndMux returns is kept in the clip's entry only to be summed
\* for a log line; the model keeps it in lastMux.)
ProcessScene(j, videoExists, audioExists, probe, status, unlinked) ==
    LET n == j.sceneVideos[j.i]
        mux == trimAndMux(j.i - 1, Len(j.sceneVideos), videoExists, audioExists, probe, status,
                         unlinked)
        j1 == [j EXCEPT !.lastMux = mux, !.muxRuns = @ + 1,
                        !.subtitles = IF mux.srtLeft THEN @ \cup {mux.idx + 1}
                                      ELSE @ \ {mux.idx + 1}]
    IN IF mux.error # <<>> THEN AssembleFail(j1, mux.error)
       ELSE AssemblyLoop(
                [j1 EXCEPT !.processedClips =
                               Append(@, [sceneNumber |-> n, path |-> ClipPath(n)]),
                           !.clipFiles[n] =
                               [exists |-> TRUE, fadeIn |-> mux.fades.fadeIn.on,
                                fadeOut |-> mux.fades.fadeOut.on],
                           !.i = @ + 1])

\* generateAudioAssets, the loop over the story's scenes from index j.i up to the
\* next call of generateVoice: scenes with a blank narration are passed over.
RECURSIVE AudioLoop(_)
AudioLoop(j) ==
    IF j.i > Len(j.scenes) THEN assembleAnimation(j)
    ELSE IF j.scenes[j.i].narration THEN [j EXCEPT !.pc = "audio", !.inFlight = @ + 1]
    ELSE AudioLoop([j EXCEPT !.i = @ + 1])

generateAudioAssetsSkipped(j) == assembleAnimation(j)

generateAudioAssets(j) == AudioLoop([j EXCEPT !.i = 1, !.phases = Append(@, "audio")])

\* (A variant that would start the video generation of every scene at once.)
generateSceneVideosAllAtOnce(j) ==
    LET j1 == [j EXCEPT !.phases = Append(@, "sceneVideos")]
    IN IF j.sceneImages = <<>> THEN generateAudioAssets(j1)
       ELSE [j1 EXCEPT !.pc = "sceneVideos", !.inFlight = @ + Len(j.sceneImages), !.i = 1]

\* generateSceneVideos and generateSceneImages: the entry of their loops.
generateSceneVideos(j) ==
    LET j1 == [j EXCEPT !.phases = Append(@, "sceneVideos")]
    IN IF j.sceneImages = <<>> THEN generateAudioAssets(j1)
       ELSE [j1 EXCEPT !.pc = "sceneVideos", !.inFlight = @ + 1, !.i = 1]

generateSceneImages(j) ==
    LET j1 == [j EXCEPT !.phases = Append(@, "sceneImages")]
    IN IF j.scenes = <<>> THEN generateSceneVideos(j1)
       ELSE [j1 EXCEPT !.pc = "sceneImages", !.inFlight = @ + 1, !.i = 1]

(* The actions of one job. *)

GenerateAnimation ==
    /\ job.pc = "created"
    /\ job' = [job EXCEPT !.pc = "story", !.inFlight = @ + 1, !.phases = <<"story">>]
    /\ UNCHANGED <<kling, area, rerun, async>>

StoryReturns ==
    /\ job.pc = "story"
    /\ \E scenes \in StoryOutputs : job' = [Settle(job) EXCEPT !.pc = "characters", !.inFlight = @ + 1, !.scenes = scenes,
                                                  !.phases = Append(@, "characters")]
    /\ UNCHANGED <<kling, area, rerun, async>>

StoryFails ==
    /\ job.pc = "story"
    /\ \E cause \in Causes : job' = PhaseCatch(Settle(job), "Failed to generate story structure", cause)
    /\ UNCHANGED <<kling, area, rerun, async>>

CharactersReturn ==
    /\ job.pc = "characters"
    /\ job' = generateSceneImages(Settle(job))
    /\ UNCHANGED <<kling, area, rerun, async>>

CharactersFail ==
    /\ job.pc = "characters"
    /\ \E cause \in Causes : job' = PhaseCatch(Settle(job), "Failed to generate character", cause)
    /\ UNCHANGED <<kling, area, rerun, async>>

SceneImageReturns ==
    /\ job.pc = "sceneImages"
    /\ LET j == [Settle(job) EXCEPT !.sceneImages = Append(@, job.scenes[job.i].sceneNumber),
                            !.i = @ + 1]
       IN job' = IF j.i > Len(j.scenes) THEN generateSceneVideos(j)
                 ELSE [j EXCEPT !.inFlight = @ + 1]
    /\ UNCHANGED <<kling, area, rerun, async>>

SceneImageFails ==
    /\ job.pc = "sceneImages"
    /\ \E cause \in Causes : job' = PhaseCatch(Settle(job), "Failed to generate detailed scene", cause)
    /\ UNCHANGED <<kling, area, rerun, async>>

SceneVideoReturns ==
    /\ job.pc = "sceneVideos"
    /\ LET j == [Settle(job) EXCEPT !.sceneVideos = Append(@, job.sceneImages[job.i]), !.i = @ + 1]
       IN job' = IF j.i > Len(j.sceneImages) THEN generateAudioAssets(j)
                 ELSE [j EXCEPT !.inFlight = @ + 1]
    /\ UNCHANGED <<kling, area, rerun, async>>

\* (A variant that would pass over the scene whose video failed.)
SceneVideoSkipped ==
    /\ job.pc = "sceneVideos"
    /\ LET j == [Settle(job) EXCEPT !.i = @ + 1]
       IN job' = IF j.i > Len(j.sceneImages) THEN generateAudioAssets(j)
                 ELSE [j EXCEPT !.inFlight = @ + 1]
    /\ UNCHANGED <<kling, area, rerun, async>>

SceneVideoFails ==
    /\ job.pc = "sceneVideos"
    /\ \E cause \in Causes : job' = PhaseCatch(Settle(job), "Failed to generate video for scene", cause)
    /\ UNCHANGED <<kling, area, rerun, async>>

\* generateVoice returned the path of the audio it wrote.
VoiceReturns ==
    /\ job.pc = "audio"
    /\ job' = AudioLoop([Settle(job) EXCEPT !.narration = Append(@, job.scenes[job.i].sceneNumber),
                                    !.i = @ + 1, !.voiceCalls = @ + 1])
    /\ UNCHANGED <<kling, area, rerun, async>>

\* generateVoice returned null: no API key, or the request failed.
VoiceReturnsNull ==
    /\ job.pc = "audio"
    /\ job' = AudioLoop([Settle(job) EXCEPT !.i = @ + 1, !.voiceCalls = @ + 1])
    /\ UNCHANGED <<kling, area, rerun, async>>

TrimAndMux ==
    /\ job.pc = "assembly"
    /\ \E videoExists \in BOOLEAN, audioExists \in BOOLEAN, probe \in ProbeOutputs,
          status \in {0, 1}, unlinked \in BOOLEAN :
           job' = ProcessScene(Settle(job), videoExists, audioExists, probe, status, unlinked)
    /\ UNCHANGED <<kling, area, rerun, async>>

\* The concatenation exited with status 0: the manifest is unlinked (a failure
\* of the unlink is logged as a warning and nothing more) and the output path
\* handed to generateAnimation, which starts the durable copy.
ConcatSucceeds ==
    /\ job.pc = "concat"
    /\ \E removed \in BOOLEAN :
           job' = [Settle(job) EXCEPT !.pc = "copy", !.inFlight = @ + 1,
                                      !.manifestOnDisk = ~removed,
                                      !.finalVideoPath = TRUE, !.transient = TRUE,
                                      !.phases = Append(@, "finalization")]
    /\ UNCHANGED <<kling, area, rerun, async>>

\* (A variant that would run the concatenation again when it fails.)
ConcatRetried ==
    /\ job.pc = "concat"
    /\ job' = IF job.concatRuns < 2
              THEN [Settle(job) EXCEPT !.inFlight = @ + 1, !.concatRuns = @ + 1]
              ELSE Fail(Settle(job), <<"Final concatenation failed">>)
    /\ UNCHANGED <<kling, area, rerun, async>>

\* The concatenation exited with another status: the promise assembleAnimation
\* had returned (without awaiting it) is rejected, so the error passes by the
\* catch block of assembleAnimation and reaches generateAnimation as it is.
ConcatFails ==
    /\ job.pc = "concat"
    /\ job' = Fail(Settle(job), <<"Final concatenation failed">>)
    /\ UNCHANGED <<kling, area, rerun, async>>

CopySucceeds ==
    /\ job.pc = "copy"
    /\ job' = [Settle(job) EXCEPT !.pc = "save", !.inFlight = @ + 1, !.durable = TRUE]
    /\ UNCHANGED <<kling, area, rerun, async>>

CopyFails ==
    /\ job.pc = "copy"
    /\ job' = Fail(Settle(job), <<"copyFile failed">>)
    /\ UNCHANGED <<kling, area, rerun, async>>

\* saveAnimationToDatabase returned. The mood variant of generateAnimation
\* (part_001) then awaits cleanupTempFiles before it returns; the variant of
\* animationService.js returns at once.
SaveSucceeds ==
    /\ job.pc = "save"
    /\ job' = IF job.variant = "mood"
              THEN [Settle(job) EXCEPT !.pc = "cleanup", !.inFlight = @ + 1, !.saved = TRUE, !.cleanupRuns = @ + 1]
              ELSE [Settle(job) EXCEPT !.pc = "finalized", !.saved = TRUE]
    /\ UNCHANGED <<kling, area, rerun, async>>

\* cleanupTempFiles: fs.rm(workingDir, {recursive, force}) removed the working
\* directory with everything in it.
cleanupTempFiles(j) ==
    [j EXCEPT !.pc = "finalized", !.reclaimed = TRUE, !.transient = FALSE,
              !.clipFiles = [n \in SceneNumbers |-> NoFile],
              !.subtitles = {}, !.manifestOnDisk = FALSE]

CleanupSucceeds ==
    /\ job.pc = "cleanup"
    /\ job' = cleanupTempFiles(Settle(job))
    /\ UNCHANGED <<kling, area, rerun, async>>

\* cleanupTempFiles caught an error (of fs.rm or of the mkdirs after it): it is
\* logged and the job returns its result; the removal may have got as far as
\* the transient deliverable.
CleanupFails ==
    /\ job.pc = "cleanup"
    /\ \E removed \in BOOLEAN :
           job' = [Settle(job) EXCEPT !.pc = "finalized",
                              !.transient = IF removed THEN FALSE ELSE @]
    /\ UNCHANGED <<kling, area, rerun, async>>

SaveFails ==
    /\ job.pc = "save"
    /\ \E cause \in Causes : job' = PhaseCatch(Settle(job), "Failed to save animation to database", cause)
    /\ UNCHANGED <<kling, area, rerun, async>>

\* (A variant whose catch block would remove the durable copy as well.)
UnlinkFinalAndDurable ==
    /\ job.pc = "unlinkFinal"
    /\ job' = [Settle(job) EXCEPT !.pc = "failed", !.transient = FALSE, !.durable = FALSE]
    /\ UNCHANGED <<kling, area, rerun, async>>

\* The catch block's unlink of the transient deliverable; its own failure is
\* logged and swallowed.
UnlinkFinal ==
    /\ job.pc = "unlinkFinal"
    /\ \E removed \in BOOLEAN :
           job' = [Settle(job) EXCEPT !.pc = "failed", !.transient = IF removed THEN FALSE ELSE @]
    /\ UNCHANGED <<kling, area, rerun, async>>

Next ==
    \/ GenerateAnimation
    \/ StoryReturns
    \/ StoryFails
    \/ CharactersReturn
    \/ CharactersFail
    \/ SceneImageReturns
    \/ SceneImageFails
    \/ SceneVideoReturns
    \/ SceneVideoFails
    \/ VoiceReturns
    \/ VoiceReturnsNull
    \/ TrimAndMux
    \/ ConcatSucceeds
    \/ ConcatFails
    \/ CopySucceeds
    \/ CopyFails
    \/ SaveSucceeds
    \/ SaveFails
    \/ CleanupSucceeds
    \/ CleanupFails
    \/ UnlinkFinal

(***************************************************************************)
(* trimAndMux on its own, run more than once on the same inputs: the same   *)
(* raw video and narration audio (so the same answers of access and of      *)
(* ffprobe), the same clip index and number of clips. What ffmpeg exits     *)
(* with and whether the unlink works are not inputs: they can differ.       *)
(***************************************************************************)
MaxRuns == 2

ClipInputs ==
    [idx : 0..(MaxScenes - 1), totalClips : 1..MaxScenes,
     videoExists : BOOLEAN, audioExists : BOOLEAN, probe : ProbeOutputs]

InitClip == [chosen |-> FALSE, runs |-> <<>>]

ChooseClip ==
    /\ ~rerun.chosen
    /\ \E in \in {c \in ClipInputs : c.idx < c.totalClips} :
           rerun' = [chosen |-> TRUE, in |-> in, runs |-> <<>>]
    /\ UNCHANGED <<kling, job, area, async>>

RunTrimAndMux ==
    /\ rerun.chosen
    /\ Len(rerun.runs) < MaxRuns
    /\ \E status \in {0, 1}, unlinked \in BOOLEAN :
           rerun' = [rerun EXCEPT !.runs =
                        Append(@, trimAndMux(rerun.in.idx, rerun.in.totalClips,
                                             rerun.in.videoExists, rerun.in.audioExists,
                                             rerun.in.probe, status, unlinked))]
    /\ UNCHANGED <<kling, job, area, async>>

NextTrimAndMux == ChooseClip \/ RunTrimAndMux

(***************************************************************************)
(* Two jobs at once. generateAnimationAsync starts processAnimationAsync    *)
(* without awaiting it, and the service is one object (module.exports = new *)
(* AnimationService()) with one workingDir: the jobs of two requests run    *)
(* interleaved at their awaits on the same directory. area is that          *)
(* directory, the durable directory and the positions of the two jobs from  *)
(* the audio phase on. A file is recorded by the job that wrote it last (0: *)
(* no such file).                                                           *)
(***************************************************************************)
Jobs == {1, 2}

\* The number of scenes of each of the two stories, numbered 1..TwoJobScenes.
TwoJobScenes == 2

SharedScenes == 1..TwoJobScenes

NoClip == [owner |-> 0, audio |-> 0]

InitArea(v) ==
    [variant |-> v,
     narration |-> [n \in SharedScenes |-> 0],
     clips |-> [n \in SharedScenes |-> NoClip],
     transient |-> [j \in Jobs |-> <<>>],
     durable |-> <<>>,
     uuids |-> 0,
     pc |-> [j \in Jobs |-> "audio"],
     i |-> [j \in Jobs |-> 1]]

\* `animation_${Date.now()}_${uuidv4()}.mp4`: a version 4 UUID is taken to be
\* one no other call has returned.
PermanentNameFixed(a) == <<"animation", 0>>

PermanentName(a) == <<"animation", a.uuids + 1>>

\* generateVoice of job j wrote audio/narration_${sceneNumber}.mp3.
TwoVoice(j) ==
    /\ area.pc[j] = "audio"
    /\ LET n == area.i[j]
           a == [area EXCEPT !.narration[n] = j]
       IN area' = IF n = TwoJobScenes
                  THEN [a EXCEPT !.pc[j] = "assembly", !.i[j] = 1]
                  ELSE [a EXCEPT !.i[j] = n + 1]
    /\ UNCHANGED <<kling, job, rerun, async>>

\* The end of assembleAnimation of job j, from the return of the last
\* trimAndMux to the exit of the concatenation (all synchronous): the clips
\* named in the manifest are read, whoever wrote them, into animation_<uuid>.mp4.
TwoConcat(a, j) ==
    IF \E n \in SharedScenes : a.clips[n] = NoClip
    THEN [a EXCEPT !.pc[j] = "failed"]
    ELSE [a EXCEPT !.pc[j] = "copy",
                   !.transient[j] = [n \in SharedScenes |-> a.clips[n]]]

\* One iteration of the loop of assembleAnimation of job j: after the awaits of
\* access(video) and access(audio), trimAndMux runs synchronously and writes
\* processed/processed_scene_${sceneNumber}.mp4 from the narration file that is
\* there; a missing narration file fails the job.
TwoMux(j) ==
    /\ area.pc[j] = "assembly"
    /\ LET n == area.i[j]
           a == [area EXCEPT !.clips[n] = [owner |-> j, audio |-> area.narration[n]]]
       IN area' = IF area.narration[n] = 0 THEN [area EXCEPT !.pc[j] = "failed"]
                  ELSE IF n = TwoJobScenes THEN TwoConcat(a, j)
                  ELSE [a EXCEPT !.i[j] = n + 1]
    /\ UNCHANGED <<kling, job, rerun, async>>

\* fs.copyFile(finalVideoPath, permanentVideoPath) of job j.
TwoCopy(j) ==
    /\ area.pc[j] = "copy"
    /\ area' = IF area.transient[j] = <<>> THEN [area EXCEPT !.pc[j] = "failed"]
               ELSE [area EXCEPT !.pc[j] = "save", !.uuids = @ + 1,
                                 !.durable = Append(@, [name |-> PermanentName(area),
                                                        job |-> j,
                                                        content |-> area.transient[j]])]
    /\ UNCHANGED <<kling, job, rerun, async>>

\* saveAnimationToDatabase of job j returned.
TwoSave(j) ==
    /\ area.pc[j] = "save"
    /\ area' = [area EXCEPT !.pc[j] = IF area.variant = "mood" THEN "cleanup" ELSE "done"]
    /\ UNCHANGED <<kling, job, rerun, async>>

\* cleanupTempFiles of job j (mood variant): fs.rm of the working directory
\* removes every file in it, of whichever job.
TwoCleanup(j) ==
    /\ area.pc[j] = "cleanup"
    /\ area' = [area EXCEPT !.pc[j] = "done",
                            !.narration = [n \in SharedScenes |-> 0],
                            !.clips = [n \in SharedScenes |-> NoClip],
                            !.transient = [k \in Jobs |-> <<>>]]
    /\ UNCHANGED <<kling, job, rerun, async>>

NextTwoJobs ==
    \/ \E j \in Jobs : TwoVoice(j)
    \/ \E j \in Jobs : TwoMux(j)
    \/ \E j \in Jobs : TwoCopy(j)
    \/ \E j \in Jobs : TwoSave(j)
    \/ \E j \in Jobs : TwoCleanup(j)

(***************************************************************************)
(* The asynchronous jobs of the controller (part_002): generateAnimationAsync *)
(* saves a record with status 'processing' and starts processAnimationAsync *)
(* without awaiting it. The pipeline is taken by what it ends with: it     *)
(* returns after saveAnimationToDatabase has saved its own record with     *)
(* status 'completed', or it throws and has saved none. A save or an update *)
(* of the database can be rejected; a rejected update changes nothing.     *)
(***************************************************************************)
MaxAsyncJobs == 2

AsyncJobs == 1..MaxAsyncJobs

InitAsyncJob ==
    [pc |-> "idle", callbackUrl |-> FALSE, status |-> "none", history |-> <<>>,
     pipeline |-> "none", pipelineRecords |-> 0, rejected |-> <<>>, webhook |-> "none"]

InitAsync == [j \in AsyncJobs |-> InitAsyncJob]

\* A save or an update that sets the status of the job's record.
SetStatus(a, status) == [a EXCEPT !.status = status, !.history = Append(@, status)]

\* processAnimationAsync after an update of the record: the webhook is posted
\* if a callbackUrl was given.
AfterUpdate(a) == [a EXCEPT !.pc = IF a.callbackUrl THEN "notifying" ELSE "done"]

\* generateAnimationAsync up to `await animation.save()`.
SubmitAsync(j) ==
    /\ async[j].pc = "idle"
    /\ \E callbackUrl \in BOOLEAN :
           async' = [async EXCEPT ![j] = [@ EXCEPT !.pc = "creating",
                                                   !.callbackUrl = callbackUrl]]
    /\ UNCHANGED <<kling, job, area, rerun>>

\* The record is saved: processAnimationAsync is started and awaits the pipeline.
RecordSaved(j) ==
    /\ async[j].pc = "creating"
    /\ async' = [async EXCEPT ![j] = [SetStatus(@, "processing") EXCEPT
                                         !.pc = "pipeline", !.pipeline = "running"]]
    /\ UNCHANGED <<kling, job, area, rerun>>

\* The save is rejected: the request is answered with the error, no job is started.
RecordSaveFails(j) ==
    /\ async[j].pc = "creating"
    /\ async' = [async EXCEPT ![j] = [@ EXCEPT !.pc = "refused"]]
    /\ UNCHANGED <<kling, job, area, rerun>>

\* generateAnimation returned: its record is saved, the update to 'completed'
\* is awaited.
PipelineReturns(j) ==
    /\ async[j].pc = "pipeline"
    /\ async' = [async EXCEPT ![j] = [@ EXCEPT !.pc = "completing", !.pipeline = "returned",
                                               !.pipelineRecords = @ + 1]]
    /\ UNCHANGED <<kling, job, area, rerun>>

\* generateAnimation threw: the catch block awaits the update to 'failed'.
PipelineThrows(j) ==
    /\ async[j].pc = "pipeline"
    /\ async' = [async EXCEPT ![j] = [@ EXCEPT !.pc = "failing", !.pipeline = "threw"]]
    /\ UNCHANGED <<kling, job, area, rerun>>

CompletedUpdated(j) ==
    /\ async[j].pc = "completing"
    /\ async' = [async EXCEPT ![j] = AfterUpdate(SetStatus(@, "completed"))]
    /\ UNCHANGED <<kling, job, area, rerun>>

\* The update to 'completed' is rejected: the error is caught by the catch block.
CompletedRejected(j) ==
    /\ async[j].pc = "completing"
    /\ async' = [async EXCEPT ![j] = [@ EXCEPT !.pc = "failing",
                                               !.rejected = Append(@, "completed")]]
    /\ UNCHANGED <<kling, job, area, rerun>>

FailedUpdated(j) ==
    /\ async[j].pc = "failing"
    /\ async' = [async EXCEPT ![j] = AfterUpdate(SetStatus(@, "failed"))]
    /\ UNCHANGED <<kling, job, area, rerun>>

\* The update to 'failed' is rejected inside the catch block: processAnimationAsync
\* rejects, and the catch of generateAnimationAsync issues the update once more.
FailedRejected(j) ==
    /\ async[j].pc = "failing"
    /\ async' = [async EXCEPT ![j] = [@ EXCEPT !.pc = "lastUpdate",
                                               !.rejected = Append(@, "failed")]]
    /\ UNCHANGED <<kling, job, area, rerun>>

LastUpdateDone(j) ==
    /\ async[j].pc = "lastUpdate"
    /\ async' = [async EXCEPT ![j] = [SetStatus(@, "failed") EXCEPT !.pc = "done"]]
    /\ UNCHANGED <<kling, job, area, rerun>>

\* That update (exec() without await or catch) is rejected too.
LastUpdateRejected(j) ==
    /\ async[j].pc = "lastUpdate"
    /\ async' = [async EXCEPT ![j] = [@ EXCEPT !.pc = "done",
                                               !.rejected = Append(@, "failed")]]
    /\ UNCHANGED <<kling, job, area, rerun>>

WebhookSent(j) ==
    /\ async[j].pc = "notifying"
    /\ async' = [async EXCEPT ![j] = [@ EXCEPT !.pc = "done", !.webhook = "sent"]]
    /\ UNCHANGED <<kling, job, area, rerun>>

\* (A variant whose failed notification would mark the job failed.)
WebhookFailsMarksFailed(j) ==
    /\ async[j].pc = "notifying"
    /\ async' = [async EXCEPT ![j] = [SetStatus(@, "failed") EXCEPT
                                         !.pc = "done", !.webhook = "failed"]]
    /\ UNCHANGED <<kling, job, area, rerun>>

\* axios.post of the webhook threw: the error is logged.
WebhookFails(j) ==
    /\ async[j].pc = "notifying"
    /\ async' = [async EXCEPT ![j] = [@ EXCEPT !.pc = "done", !.webhook = "failed"]]
    /\ UNCHANGED <<kling, job, area, rerun>>

NextAsync ==
    \/ \E j \in AsyncJobs : SubmitAsync(j)
    \/ \E j \in AsyncJobs : RecordSaved(j)
    \/ \E j \in AsyncJobs : RecordSaveFails(j)
    \/ \E j \in AsyncJobs : PipelineReturns(j)
    \/ \E j \in AsyncJobs : PipelineThrows(j)
    \/ \E j \in AsyncJobs : CompletedUpdated(j)
    \/ \E j \in AsyncJobs : CompletedRejected(j)
    \/ \E j \in AsyncJobs : FailedUpdated(j)
    \/ \E j \in AsyncJobs : FailedRejected(j)
    \/ \E j \in AsyncJobs : LastUpdateDone(j)
    \/ \E j \in AsyncJobs : LastUpdateRejected(j)
    \/ \E j \in AsyncJobs : WebhookSent(j)
    \/ \E j \in AsyncJobs : WebhookFails(j)

\* A job of either variant of AnimationService.
Init ==
    /\ kling = InitKling("replicate")
    /\ job \in {InitJob, [InitJob EXCEPT !.variant = "mood"]}
    /\ area = InitArea("plain")
    /\ rerun = InitClip
    /\ async = InitAsync

\* Two jobs started by two requests of generateAnimationAsync, of either variant
\* of the service.
SpecTwoJobs ==
    kling = InitKling("replicate") /\ job = InitJob
      /\ area \in {InitArea("plain"), InitArea("mood")} /\ rerun = InitClip
      /\ async = InitAsync
      /\ [][NextTwoJobs]_vars

Spec == Init /\ [][Next]_vars

\* A job of the mood variant (part_001).
SpecMood ==
    kling = InitKling("replicate") /\ job = [InitJob EXCEPT !.variant = "mood"]
      /\ area = InitArea("mood") /\ rerun = InitClip /\ async = InitAsync
      /\ [][Next]_vars

\* Runs of trimAndMux on one tuple of inputs.
SpecTrimAndMux ==
    kling = InitKling("replicate") /\ job = InitJob /\ area = InitArea("plain")
      /\ rerun = InitClip /\ async = InitAsync /\ [][NextTrimAndMux]_vars

SpecKling ==
    kling = InitKling("replicate") /\ job = InitJob /\ area = InitArea("plain")
      /\ rerun = InitClip /\ async = InitAsync
      /\ [][NextKling]_vars

\* The asynchronous jobs of the controller.
SpecAsync ==
    kling = InitKling("replicate") /\ job = InitJob /\ area = InitArea("plain")
      /\ rerun = InitClip /\ async = InitAsync
      /\ [][NextAsync]_vars

SpecHttp ==
    kling = InitKling("replicate") /\ job = InitJob /\ area = InitArea("plain")
      /\ rerun = InitClip /\ async = InitAsync
      /\ [][NextHttp]_vars

\* Every pending await of the engine (a provider call, an HTTP request, a timer)
\* completes: Node's event loop runs a ready callback.
FairSpecKling == SpecKling /\ WF_vars(NextKling)

SpecFalAI ==
    kling = InitKling("falai") /\ job = InitJob /\ area = InitArea("plain")
      /\ rerun = InitClip /\ async = InitAsync
      /\ [][NextKling]_vars

(***************************************************************************)
(* The claims about the fallback engine and its poll loop.                 *)
(***************************************************************************)

Calls == kling.calls

CallIndices == 1..Len(Calls)

StrategiesStarted == {Calls[i].attempt : i \in CallIndices}

PollInFlight == kling.httpFor = "poll" /\ kling.pc \in {"http", "httpSleep"}

\* C1: when every provider call of every strategy fails, the engine fails after
\* exactly three strategy attempts (never a fourth, never fewer), and the error
\* it raises wraps the error of the last strategy, which wraps the error of the
\* last provider call.
C1_ExhaustedAfterThreeAttempts ==
    /\ kling.attempt <= maxStrategyAttempts
    /\ StrategiesStarted \subseteq 1..maxStrategyAttempts
    /\ kling.pc = "failed" =>
         /\ StrategiesStarted = 1..maxStrategyAttempts
         /\ kling.attempt = maxStrategyAttempts
         /\ \A i \in CallIndices : Calls[i].outcome = "failed"
         /\ kling.error = Wrap("video generation failed after 3 attempts", kling.lastError)
         /\ kling.lastError = Wrap("Failed to generate video", kling.callError)
    /\ (kling.pc = "done") => (\E i \in CallIndices : Calls[i].outcome = "ok")

C1_Witness ==
    /\ kling.pc = "failed"
    /\ Len(Calls) = 6
    /\ kling.callError[Len(kling.callError)] = "r2"

\* C2: with a primary provider that always fails and a direct provider that
\* always succeeds, the engine returns the direct provider's result in strategy
\* attempt 1: no second attempt is started and no backoff is taken.
PrimaryAlwaysFails ==
    \A i \in CallIndices : Calls[i].provider = "primary" => Calls[i].outcome # "ok"

SecondaryAlwaysSucceeds ==
    \A i \in CallIndices : Calls[i].provider = "direct" => Calls[i].outcome # "failed"

C2_SecondaryWithinFirstAttempt ==
    (PrimaryAlwaysFails /\ SecondaryAlwaysSucceeds) =>
        /\ kling.attempt <= 1
        /\ kling.backoffs = <<>>
        /\ kling.pc # "failed"
        /\ kling.pc = "done" => kling.result = [provider |-> "direct", attempt |-> 1]

\* C3: the strategies run in the order camera control, standard, simplified
\* prompt (the first clause of the motion description only); a strategy starts
\* only after the one before it has failed; the first success ends the engine
\* and no provider call follows it.
ExpectedFunction(a) ==
    IF a = 1 THEN "generateVideoWithCameraControl" ELSE "generateVideo"

ExpectedPrompt(a) ==
    IF a < 3 THEN kling.motionDescription
    ELSE <<"Disney animation: ", Head(kling.motionDescription), " with mood">>

C3_StrategyOrder ==
    /\ \A i \in CallIndices :
         /\ Calls[i].fn = ExpectedFunction(Calls[i].attempt)
         /\ Calls[i].prompt = ExpectedPrompt(Calls[i].attempt)
         /\ Calls[i].outcome = "ok" => (i = Len(Calls) /\ kling.pc = "done")
         /\ i < Len(Calls) =>
              /\ Calls[i].outcome = "failed"
              /\ Calls[i + 1].attempt \in {Calls[i].attempt, Calls[i].attempt + 1}
    /\ Calls # <<>> => Calls[1].attempt = 1
    /\ kling.pc = "done" => Calls[Len(Calls)].outcome = "ok"

C3_Witness ==
    /\ kling.pc = "done"
    /\ kling.result.attempt = 3
    /\ Len(kling.motionDescription) = 2

\* C4: once a status response reports `failed`, the provider call ends at once
\* with the reported reason: no wait and no further status request follow for
\* that task.
C4_FailedStatusEndsCall ==
    kling.sawFailed => (~PollInFlight /\ kling.pc # "pollSleep")

\* C5: the poll loop is bounded: every round (one status request) adds one to
\* attempts, so at most maxPollAttempts rounds are made and the call has ended
\* when attempts reaches the cap; it ends in success, in a polling error or in
\* the timed-out error; the direct provider returns success only after a
\* `succeed` status.
PollEnded == kling.httpFor # "poll" /\ kling.pc # "pollSleep"

C5_PollTerminates ==
    /\ kling.pollRounds <= maxPollAttempts
    /\ kling.attempts <= maxPollAttempts
    /\ PollInFlight => kling.pollRounds = kling.attempts + 1
    /\ kling.pc = "pollSleep" => kling.pollRounds = kling.attempts
    /\ kling.pollEnd = "polling" <=> ~PollEnded
    /\ kling.attempts = maxPollAttempts => kling.pollEnd \in {"timed out", "polling failed"}
    /\ kling.pollEnd = "success" => kling.sawSucceed
    /\ (kling.pc = "done" /\ kling.result.provider = "direct") => kling.pollEnd = "success"

C5_PollAlwaysEnds ==
    /\ []C5_PollTerminates
    /\ (kling.pollEnd = "polling") ~> (kling.pollEnd # "polling")

C5_Witness ==
    /\ kling.attempts = maxPollAttempts
    /\ kling.pollRounds = maxPollAttempts
    /\ kling.pollEnd = "timed out"

(***************************************************************************)
(* The claims about the assembly of the timeline.                          *)
(***************************************************************************)

\* The scene numbers that have a narration asset.
AudioScenes == {job.narration[a] : a \in 1..Len(job.narration)}

\* The scene number of the clip listed at position c of the manifest.
ManifestScene(c) == job.manifest[c][2]

ManifestPositions == 1..Len(job.manifest)

TimelineWritten == job.manifestWrites > 0

\* C6: the scene numbers listed in a written manifest are strictly increasing,
\* so no scene number is listed twice, whatever scene videos and narration
\* assets the assembly was given.
C6_ManifestStrictlyIncreasing ==
    TimelineWritten =>
        \A c, d \in ManifestPositions : c < d => ManifestScene(c) < ManifestScene(d)

\* C7: the manifest is a function of the scene numbers alone: it lists, in
\* ascending scene number, one clip path for each scene video that has audio,
\* in whatever order the scene videos were handed over; before the assembly
\* every phase keeps the scenes in the order of the story.
ClipsOfScene(n) ==
    Cardinality({v \in 1..Len(job.sceneVideos) :
                     job.sceneVideos[v] = n /\ n \in AudioScenes})

RECURSIVE AscendingManifest(_)
AscendingManifest(n) ==
    IF n = 0 THEN <<>>
    ELSE AscendingManifest(n - 1) \o [c \in 1..ClipsOfScene(n) |-> ClipPath(n)]

LastSceneNumber == CHOOSE n \in SceneNumbers : \A m \in SceneNumbers : m <= n

C7_ManifestDependsOnSceneNumberOnly ==
    /\ TimelineWritten => job.manifest = AscendingManifest(LastSceneNumber)
    /\ Len(job.sceneImages) <= Len(job.scenes)
    /\ \A c \in 1..Len(job.sceneImages) : job.sceneImages[c] = job.scenes[c].sceneNumber
    /\ Len(job.sceneVideos) <= Len(job.sceneImages)
    /\ \A c \in 1..Len(job.sceneVideos) : job.sceneVideos[c] = job.sceneImages[c]

C7_Witness ==
    /\ TimelineWritten
    /\ Len(job.manifest) = 3
    /\ \E c, d \in 1..Len(job.sceneVideos) : c < d /\ job.sceneVideos[c] > job.sceneVideos[d]

\* C8: in a written timeline the fades follow the position in the timeline: a
\* single clip has both fades; otherwise the first clip has the fade-in only,
\* the last clip the fade-out only and the clips between them none. (Stated for
\* stories whose scene numbers are increasing, so that every clip file is listed
\* once.)
StoryInOrder ==
    \A c, d \in 1..Len(job.scenes) :
        c < d => job.scenes[c].sceneNumber < job.scenes[d].sceneNumber

C8_FadesByTimelinePosition ==
    (TimelineWritten /\ StoryInOrder) =>
        \A c \in ManifestPositions :
            LET file == job.clipFiles[ManifestScene(c)]
            IN /\ file.exists
               /\ file.fadeIn <=> (c = 1)
               /\ file.fadeOut <=> (c = Len(job.manifest))

\* C9: a scene left without narration audio is left out and nothing else: only
\* scenes with audio are muxed, a written timeline lists exactly the scene
\* videos that have audio, in ascending order, the job is not failed for the
\* missing audio while some scene has audio, and the job that finalizes has its
\* deliverable copied and saved.
NoClipsError ==
    job.error = <<"Animation generation failed", "Failed to assemble animation",
                  "No clips were successfully processed">>

C9_MissingAudioExcludesScene ==
    /\ job.pc = "assembly" => job.sceneVideos[job.i] \in AudioScenes
    /\ job.muxRuns > 0 => job.sceneVideos[job.lastMux.idx + 1] \in AudioScenes
    /\ TimelineWritten =>
         /\ {ManifestScene(c) : c \in ManifestPositions}
              = {job.sceneVideos[v] : v \in 1..Len(job.sceneVideos)} \cap AudioScenes
         /\ \A c, d \in ManifestPositions : c < d => ManifestScene(c) <= ManifestScene(d)
    /\ NoClipsError => AudioScenes = {}
    /\ job.pc = "finalized" => (TimelineWritten /\ job.durable /\ job.saved /\ job.error = <<>>)

C9_Witness ==
    /\ job.pc = "finalized"
    /\ \E c \in 1..Len(job.scenes) :
           job.scenes[c].narration /\ job.scenes[c].sceneNumber \notin AudioScenes
    /\ Len(job.manifest) = 2
    /\ Len(job.sceneVideos) = 3

\* C10: assembly with no processed clip is fatal: the job fails with the error
\* "No clips were successfully processed", no manifest has been written and the
\* concatenation has not been run; a manifest is only ever written, and the
\* concatenation only ever run, with at least one clip.
C10_ZeroClipsIsFatal ==
    /\ NoClipsError =>
         /\ job.pc = "failed"
         /\ job.processedClips = <<>>
         /\ job.manifestWrites = 0 /\ ~job.manifestOnDisk /\ job.concatRuns = 0
         /\ ~job.finalVideoPath /\ ~job.durable /\ ~job.saved
    /\ TimelineWritten => job.manifest # <<>>
    /\ job.concatRuns > 0 => (TimelineWritten /\ job.processedClips # <<>>)
    /\ job.pc \in {"concat", "copy", "save", "cleanup", "finalized"} =>
         job.processedClips # <<>>

C10_Witness ==
    /\ NoClipsError
    /\ job.pc = "failed"
    /\ Len(job.sceneVideos) = 2
    /\ \E c \in 1..Len(job.scenes) : job.scenes[c].narration

(***************************************************************************)
(* The claims about the phases of a job and what a failure leaves.         *)
(***************************************************************************)

PhaseOrder ==
    <<"story", "characters", "sceneImages", "sceneVideos", "audio", "assembly",
      "finalization">>

Started(phase) == \E c \in 1..Len(job.phases) : job.phases[c] = phase

LastPhase == job.phases[Len(job.phases)]

\* The phase a program position belongs to.
PhaseOfPc ==
    [story |-> "story", characters |-> "characters", sceneImages |-> "sceneImages",
     sceneVideos |-> "sceneVideos", audio |-> "audio", assembly |-> "assembly",
     concat |-> "assembly", copy |-> "finalization", save |-> "finalization",
     cleanup |-> "finalization", finalized |-> "finalization"]

\* The phase that raises an error message.
PhaseOfError ==
    [e \in {"Failed to generate story structure", "Failed to generate character",
            "Failed to generate detailed scene", "Failed to generate video for scene",
            "Failed to assemble animation", "Final concatenation failed",
            "copyFile failed",
            "Failed to save animation to database"} |->
        CASE e = "Failed to generate story structure" -> "story"
          [] e = "Failed to generate character" -> "characters"
          [] e = "Failed to generate detailed scene" -> "sceneImages"
          [] e = "Failed to generate video for scene" -> "sceneVideos"
          [] e = "Failed to assemble animation" -> "assembly"
          [] e = "Final concatenation failed" -> "assembly"
          [] OTHER -> "finalization"]

NarratedScenes == {c \in 1..Len(job.scenes) : job.scenes[c].narration}

\* C11: the phases are started in the order story, characters, scene images,
\* scene videos, audio, assembly, finalization, each at most once; a phase is
\* started only when the one before it has gone through its whole input; the
\* running position is in the last phase started; and the phase that failed a
\* job is the last phase the job started.
C11_PhasesStrictlyForward ==
    /\ Len(job.phases) <= Len(PhaseOrder)
    /\ \A c \in 1..Len(job.phases) : job.phases[c] = PhaseOrder[c]
    /\ job.pc \in DOMAIN PhaseOfPc => LastPhase = PhaseOfPc[job.pc]
    /\ Started("sceneVideos") => Len(job.sceneImages) = Len(job.scenes)
    /\ Started("audio") => Len(job.sceneVideos) = Len(job.scenes)
    /\ Started("assembly") => job.voiceCalls = Cardinality(NarratedScenes)
    /\ Started("finalization") =>
         /\ job.processedClips # <<>>
         /\ job.concatRuns = 1
         /\ job.muxRuns = Cardinality({v \in 1..Len(job.sceneVideos) :
                                          job.sceneVideos[v] \in AudioScenes})
    /\ job.pc \in {"unlinkFinal", "failed"} => LastPhase = PhaseOfError[job.error[2]]

C11_Witness ==
    /\ job.pc = "failed"
    /\ job.error[2] = "Failed to generate video for scene"
    /\ Len(job.sceneVideos) = 1
    /\ Len(job.scenes) = 3

\* C12: a failure of the image or of the video of one scene aborts the job: the
\* job is failed with that scene's error, the scenes after it have neither image
\* nor video, assembly has not been started, nothing has been muxed and there is
\* no deliverable, transient or durable; so an assembly that is started has an
\* image and a video for every scene of the story.
SceneError ==
    /\ Len(job.error) >= 2
    /\ job.error[2] \in {"Failed to generate detailed scene",
                         "Failed to generate video for scene"}

C12_SceneFailureAbortsJob ==
    /\ SceneError =>
         /\ job.pc = "failed"
         /\ job.error[2] = "Failed to generate detailed scene" =>
              (Len(job.sceneImages) < Len(job.scenes) /\ job.sceneVideos = <<>>)
         /\ job.error[2] = "Failed to generate video for scene" =>
              Len(job.sceneVideos) < Len(job.scenes)
         /\ job.narration = <<>> /\ job.voiceCalls = 0
         /\ ~Started("audio") /\ ~Started("assembly") /\ ~Started("finalization")
         /\ job.muxRuns = 0 /\ job.manifestWrites = 0 /\ job.concatRuns = 0
         /\ \A n \in SceneNumbers : ~job.clipFiles[n].exists
         /\ ~job.finalVideoPath /\ ~job.transient /\ ~job.durable /\ ~job.saved
    /\ Started("assembly") =>
         /\ Len(job.sceneVideos) = Len(job.scenes)
         /\ \A c \in 1..Len(job.scenes) :
                /\ job.sceneImages[c] = job.scenes[c].sceneNumber
                /\ job.sceneVideos[c] = job.scenes[c].sceneNumber

C12_Witness ==
    /\ job.pc = "failed"
    /\ job.error[2] = "Failed to generate detailed scene"
    /\ Len(job.sceneImages) = 1
    /\ Len(job.scenes) = 3

\* C13: a job that succeeds has copied its deliverable to durable storage
\* before the working area is reclaimed; the working area is reclaimed once, as
\* a whole, before the job returns; a failed reclamation leaves the job
\* successful and the durable deliverable in place.
AreaEmpty ==
    /\ ~job.transient /\ ~job.manifestOnDisk /\ job.subtitles = {}
    /\ \A n \in SceneNumbers : ~job.clipFiles[n].exists

C13_DurableThenReclaimed ==
    /\ job.cleanupRuns <= 1
    /\ job.cleanupRuns > 0 =>
         (job.pc \in {"cleanup", "finalized"} /\ job.durable /\ job.saved /\ job.error = <<>>)
    /\ job.reclaimed => (job.durable /\ AreaEmpty)
    /\ job.pc = "finalized" => (job.durable /\ job.cleanupRuns = 1)

C13_Witness ==
    /\ job.variant = "mood"
    /\ job.pc = "finalized"
    /\ job.cleanupRuns = 1 /\ ~job.reclaimed
    /\ job.durable /\ job.transient

\* C14: a job that fails after assembly has returned goes through the removal
\* of the transient deliverable and is failed with the error of the step that
\* failed, whether or not the removal worked; the durable copy is there exactly
\* when the copy succeeded, so a failed save of the record leaves it in place.
CopyDone ==
    \/ job.pc \in {"save", "cleanup", "finalized"}
    \/ /\ job.pc \in {"unlinkFinal", "failed"}
       /\ job.error[2] = "Failed to save animation to database"

C14_FailureKeepsDurable ==
    /\ job.durable <=> CopyDone
    /\ job.pc = "unlinkFinal" =>
         /\ job.finalVideoPath /\ job.transient
         /\ job.error[2] \in {"copyFile failed", "Failed to save animation to database"}
    /\ (job.pc = "failed" /\ job.finalVideoPath) =>
         /\ job.error[1] = "Animation generation failed"
         /\ job.error[2] \in {"copyFile failed", "Failed to save animation to database"}
         /\ ~job.saved
    /\ (job.pc = "failed" /\ ~job.finalVideoPath) => (~job.transient /\ ~job.durable)

C14_Witness ==
    /\ job.pc = "failed"
    /\ job.error[2] = "Failed to save animation to database"
    /\ job.durable /\ job.transient

(***************************************************************************)
(* The claims about two jobs at once and about durable storage.            *)
(***************************************************************************)

\* The files of the working directory that job j still uses are as j wrote
\* them: the narration files it has written and not yet muxed, the clips it has
\* muxed and not yet concatenated, its transient deliverable until it is copied.
StillOwns(j) ==
    /\ area.pc[j] = "audio" =>
         \A n \in SharedScenes : n < area.i[j] => area.narration[n] = j
    /\ area.pc[j] = "assembly" =>
         /\ \A n \in SharedScenes : n >= area.i[j] => area.narration[n] = j
         /\ \A n \in SharedScenes : n < area.i[j] => area.clips[n] = [owner |-> j, audio |-> j]
    /\ area.pc[j] = "copy" =>
         /\ area.transient[j] # <<>>
         /\ \A n \in SharedScenes : area.transient[j][n] = [owner |-> j, audio |-> j]

\* C15: with two jobs running at once, in every interleaving, each job finds
\* the files it still uses as it wrote them: the other job has not written over
\* them or removed them, and no job has failed for a file that was taken away.
C15_WorkingAreaExclusive ==
    \A j \in Jobs : StillOwns(j) /\ area.pc[j] # "failed"

\* C16: each job writes durable storage at most once, only when its own
\* assembly has returned a deliverable, and under a name no other write uses.
DurableWrites == 1..Len(area.durable)

C16_DurableWrittenOnce ==
    /\ \A j \in Jobs : Cardinality({d \in DurableWrites : area.durable[d].job = j}) <= 1
    /\ \A d \in DurableWrites :
           /\ area.pc[area.durable[d].job] \in {"save", "cleanup", "done"}
           /\ area.durable[d].content # <<>>
    /\ \A d, e \in DurableWrites : d # e => area.durable[d].name # area.durable[e].name
    /\ \A j \in Jobs : area.pc[j] \in {"save", "cleanup", "done"} =>
           \E d \in DurableWrites : area.durable[d].job = j

C16_Witness ==
    /\ Len(area.durable) = 2
    /\ \A j \in Jobs : area.pc[j] = "done"

(***************************************************************************)
(* The claims about the duration trimAndMux works with. job.lastMux is the  *)
(* record of the last call of trimAndMux; the value a call returns is the   *)
(* probed duration, dur.                                                    *)
(***************************************************************************)

ClipProduced == job.muxRuns > 0 /\ job.lastMux.returned

\* C17: a call of trimAndMux that returns has probed a number, has trimmed the
\* video to that number plus the padding, and returns that number, which is not
\* negative.
C17_ReturnedDurationIsAudioDuration ==
    ClipProduced =>
        /\ job.lastMux.dur.kind = "number"
        /\ job.lastMux.trim = job.lastMux.dur.ms + trimPadding
        /\ job.lastMux.dur.ms >= 0

\* C18: the duration a call of trimAndMux returns for a clip is at most the
\* duration of the raw video plus the padding.
C18_DurationWithinRawVideo ==
    ClipProduced => job.lastMux.dur.ms <= rawVideoDuration + trimPadding

\* C19: a probe that gives NaN or a negative number ends the call of trimAndMux
\* in an error before the subtitle file is written and before ffmpeg is run.
InvalidProbe ==
    /\ job.muxRuns > 0 /\ job.lastMux.probed
    /\ \/ job.lastMux.dur.kind = "NaN"
       \/ job.lastMux.dur.kind = "number" /\ job.lastMux.dur.ms < 0

C19_InvalidProbeIsFatal ==
    InvalidProbe =>
        /\ job.lastMux.error # <<>>
        /\ ~job.lastMux.srtWritten
        /\ job.lastMux.ffmpegRuns = 0
        /\ ~job.lastMux.returned

(***************************************************************************)
(* The claim about the error a failed job reports. processAnimationAsync    *)
(* hands error.message of generateAnimation to the caller unchanged.        *)
(***************************************************************************)

\* C20: the error of a failed job names the phase that failed and ends with
\* the message of the innermost error; the failed job has returned no result
\* and saved no record.
C20_FailureCarriesPhaseAndCause ==
    job.pc = "failed" =>
        /\ job.error[1] = "Animation generation failed"
        /\ PhaseOfError[job.error[2]] = LastPhase
        /\ job.error[Len(job.error)] = job.cause[1]
        /\ ~job.saved

(***************************************************************************)
(* The claims about trimAndMux and about what assembly leaves on disk.     *)
(***************************************************************************)

Runs == 1..Len(rerun.runs)

NarratedBefore(i) == {c \in 1..(i - 1) : job.scenes[c].narration}

VideosWithAudioBefore(i) == {v \in 1..(i - 1) : job.sceneVideos[v] \in AudioScenes}

\* C22: a job has at most one awaited call (a generation request with its poll
\* loop, or a media tool) in flight, and inside a phase the call for the scene at
\* index i is in flight only when the calls for all the scenes before it have
\* settled: the results so far are exactly those of the scenes before i.
C22_OneUnitInFlight ==
    /\ job.inFlight \in {0, 1}
    /\ job.inFlight = 0 <=> job.pc \in {"created", "failed", "finalized"}
    /\ job.pc = "sceneImages" => Len(job.sceneImages) = job.i - 1
    /\ job.pc = "sceneVideos" => Len(job.sceneVideos) = job.i - 1
    /\ job.pc = "audio" => job.voiceCalls = Cardinality(NarratedBefore(job.i))
    /\ job.pc = "assembly" => job.muxRuns = Cardinality(VideosWithAudioBefore(job.i))

C22_Witness ==
    /\ job.pc = "sceneVideos" /\ job.i = 2 /\ Len(job.sceneImages) = 3
    /\ job.inFlight = 1 /\ Len(job.sceneVideos) = 1

(***************************************************************************)
(* The claims about the failures of trimAndMux and of the concatenation.   *)
(***************************************************************************)

\* The last call of trimAndMux was given a raw video or a narration audio that
\* does not exist.
InputMissing ==
    job.muxRuns > 0 /\ (~job.lastMux.videoExists \/ ~job.lastMux.audioExists)

\* C23: a call of trimAndMux whose raw video or narration audio does not exist
\* ends with an error before ffprobe is run, before a subtitle file is written
\* and before ffmpeg is run; the scene is not passed over: assembly stops there
\* with the job failed and no concatenation is started.
C23_MissingInputFailsFast ==
    InputMissing =>
        /\ job.lastMux.error # <<>> /\ ~job.lastMux.returned
        /\ ~job.lastMux.probed
        /\ ~job.lastMux.srtWritten /\ (job.lastMux.idx + 1) \notin job.subtitles
        /\ job.lastMux.ffmpegRuns = 0
        /\ job.pc = "failed" /\ job.error # <<>>
        /\ job.concatRuns = 0

C23_Witness ==
    /\ InputMissing /\ job.lastMux.videoExists /\ ~job.lastMux.audioExists
    /\ job.lastMux.idx = 1 /\ job.pc = "failed"

\* The last call of trimAndMux ended with ffmpeg's non-zero exit status; the job
\* ended with the concatenation's.
TranscodeFailed == job.muxRuns > 0 /\ job.lastMux.error = <<"ffmpeg failed">>

ConcatFailed ==
    job.error = <<"Animation generation failed", "Final concatenation failed">>

\* C24: ffmpeg is never run again after it failed. A call of trimAndMux that
\* ends with ffmpeg's non-zero status has run ffmpeg once, is the only call made
\* for its scene, and fails the job with no concatenation started; the
\* concatenation is run at most once, and when it fails the job is failed with
\* nothing handed over or copied.
C24_MediaToolNeverRetried ==
    /\ job.concatRuns <= 1
    /\ job.muxRuns > 0 => job.lastMux.ffmpegRuns <= 1
    /\ TranscodeFailed =>
          /\ job.lastMux.ffmpegRuns = 1
          /\ job.muxRuns = Cardinality(VideosWithAudioBefore(job.lastMux.idx + 1)) + 1
          /\ job.pc = "failed"
          /\ job.error = <<"Animation generation failed", "Failed to assemble animation",
                           "ffmpeg failed">>
          /\ job.concatRuns = 0
    /\ ConcatFailed =>
          /\ job.concatRuns = 1
          /\ job.pc = "failed"
          /\ ~job.finalVideoPath /\ ~job.durable /\ ~job.saved

C24_Witness == ConcatFailed /\ job.muxRuns = 2 /\ job.concatRuns = 1

(***************************************************************************)
(* The claims about what trimAndMux and assembleAnimation leave on disk.   *)
(***************************************************************************)

\* C25: when a call of trimAndMux has returned, the subtitle file it wrote
\* (subtitle<idx+1>.srt) is not in the working directory any more.
C25_SubtitleRemovedOnReturn ==
    ClipProduced =>
        /\ job.lastMux.srtWritten
        /\ ~job.lastMux.srtLeft
        /\ (job.lastMux.idx + 1) \notin job.subtitles

C25_Witness ==
    /\ ClipProduced /\ job.lastMux.idx = 1 /\ job.lastMux.srtWritten
    /\ job.subtitles = {} /\ job.clipFiles[job.sceneVideos[2]].exists

\* assembleAnimation has just handed its output path to generateAnimation.
AssemblyReturned == job.pc = "copy"

ManifestScenes == {ManifestScene(c) : c \in ManifestPositions}

\* C26: when assembleAnimation has returned, the manifest (concat_list.txt) is
\* not on disk any more, the output file is there and its path was returned,
\* and the processed clip files are the ones trimAndMux wrote: every clip the
\* manifest lists is on disk and no other.
C26_ManifestDeletedClipsKept ==
    AssemblyReturned =>
        /\ ~job.manifestOnDisk
        /\ job.finalVideoPath /\ job.transient
        /\ \A n \in SceneNumbers : job.clipFiles[n].exists <=> n \in ManifestScenes

(***************************************************************************)
(* The claims about the fades of a clip.                                   *)
(***************************************************************************)

\* The last call of trimAndMux got as far as running ffmpeg.
Transcoded == job.muxRuns > 0 /\ job.lastMux.ffmpegRuns = 1

\* C27: ffmpeg is given an audio fade-in exactly when it is given a video
\* fade-in, an audio fade-out exactly when it is given a video fade-out, and
\* the two fades of a pair have the same start and the same duration.
C27_AudioFadesMirrorVideoFades ==
    Transcoded =>
        /\ job.lastMux.audioFades.fadeIn.on <=> job.lastMux.fades.fadeIn.on
        /\ job.lastMux.audioFades.fadeOut.on <=> job.lastMux.fades.fadeOut.on
        /\ job.lastMux.audioFades.fadeIn.st = job.lastMux.fades.fadeIn.st
        /\ job.lastMux.audioFades.fadeIn.d = job.lastMux.fades.fadeIn.d
        /\ job.lastMux.audioFades.fadeOut.st = job.lastMux.fades.fadeOut.st
        /\ job.lastMux.audioFades.fadeOut.d = job.lastMux.fades.fadeOut.d

C27_Witness ==
    /\ Transcoded /\ job.lastMux.idx = 2
    /\ job.lastMux.fades.fadeOut.on /\ ~job.lastMux.fades.fadeIn.on
    /\ job.lastMux.audioFades.fadeOut.st = 11500

(***************************************************************************)
(* The claims about the waits of the fallback engine and of its polling.   *)
(***************************************************************************)

\* The waits of generateVideoWithFallback in the order they are taken, when all
\* of them are taken.
ExpectedWaits == <<4000, 8000>>

\* C28: generateVideoWithFallback waits 4000 ms after a failed attempt 1 and
\* 8000 ms after a failed attempt 2 (2000 ms * 2^attempt), each wait longer than
\* the one before; one wait is taken per failed attempt that is not the last,
\* and none after attempt 3 or after an attempt that succeeds.
C28_StrategyBackoff ==
    /\ Len(kling.backoffs) <= Len(ExpectedWaits)
    /\ kling.backoffs = SubSeq(ExpectedWaits, 1, Len(kling.backoffs))
    /\ \A a, b \in 1..Len(kling.backoffs) : a < b => kling.backoffs[a] < kling.backoffs[b]
    /\ kling.pc = "backoff" => Len(kling.backoffs) = kling.attempt
    /\ kling.pc \notin {"idle", "backoff"} => Len(kling.backoffs) = kling.attempt - 1

C28_Witness ==
    /\ kling.pc = "failed" /\ kling.attempt = 3
    /\ kling.backoffs = <<4000, 8000>>

\* A call of pollVideoGeneration has given up on polling errors, and every one
\* of its status requests had ended in an error.
GaveUpOnErrorsAlone == kling.pollEnd = "polling failed" /\ kling.onlyErrors

\* C29: the errors of a poll are retried on a budget of their own that is
\* smaller than the budget of the poll loop, so a call whose status requests
\* all end in an error gives up before the loop's budget of attempts is used
\* up; the wait after an error is never longer than 30000 ms.
C29_PollErrorsOwnBudget ==
    /\ kling.pollDelay <= maxRetryDelay
    /\ GaveUpOnErrorsAlone => kling.attempts < maxPollAttempts

\* The (1-based) index in sceneVideos of the raw video the last call of
\* trimAndMux was made for: the muxRuns-th of the scene videos that have an audio.
RawIndexOfLastCall ==
    CHOOSE v \in 1..Len(job.sceneVideos) :
        /\ job.sceneVideos[v] \in AudioScenes
        /\ Cardinality(VideosWithAudioBefore(v)) = job.muxRuns - 1

\* C30: the fades of a clip go by the place of its raw video in sceneVideos,
\* the scene videos without audio counted: a fade-in exactly for the first of
\* sceneVideos, a fade-out exactly for the last, whichever clips are processed
\* and wherever the sort by scene number puts them; the clip file written has
\* those fades.
C30_FadesByRawVideoIndex ==
    Transcoded =>
        /\ job.lastMux.fades.fadeIn.on <=> RawIndexOfLastCall = 1
        /\ job.lastMux.fades.fadeOut.on <=> RawIndexOfLastCall = Len(job.sceneVideos)
        /\ job.lastMux.totalClips = Len(job.sceneVideos)
        /\ (ClipProduced /\ ~job.reclaimed) =>
              LET file == job.clipFiles[job.sceneVideos[RawIndexOfLastCall]]
              IN /\ file.exists
                 /\ file.fadeIn <=> RawIndexOfLastCall = 1
                 /\ file.fadeOut <=> RawIndexOfLastCall = Len(job.sceneVideos)

\* The only clip of the manifest comes from the second of three scene videos,
\* the first and the third having no audio: it has neither fade.
C30_Witness ==
    /\ job.pc = "concat" /\ Len(job.manifest) = 1 /\ Len(job.sceneVideos) = 3
    /\ job.muxRuns = 1 /\ RawIndexOfLastCall = 2
    /\ ~job.lastMux.fades.fadeIn.on /\ ~job.lastMux.fades.fadeOut.on

\* C31: the fade-out of a clip starts at the audio's duration less fadeTime and
\* ends at the audio's duration, and each fade lies inside the audio: it does
\* not start before 0 and does not end after the duration, whatever duration
\* ffprobe read.
C31_FadeWindowsInsideAudio ==
    Transcoded =>
        /\ job.lastMux.fades.fadeOut.on =>
              /\ job.lastMux.fades.fadeOut.st = job.lastMux.dur.ms - fadeTime
              /\ job.lastMux.fades.fadeOut.st + job.lastMux.fades.fadeOut.d = job.lastMux.dur.ms
              /\ job.lastMux.fades.fadeOut.st >= 0
        /\ job.lastMux.fades.fadeIn.on =>
              /\ job.lastMux.fades.fadeIn.st = 0
              /\ job.lastMux.fades.fadeIn.st + job.lastMux.fades.fadeIn.d <= job.lastMux.dur.ms

\* C32: whichever way a call of trimAndMux ends after it wrote its subtitle
\* file (a return, ffmpeg's non-zero status, another error), that file is not in
\* the working directory afterwards; and after a failed concatenation the
\* manifest is not on disk.
C32_NoSubtitleOrManifestLeft ==
    /\ (job.muxRuns > 0 /\ job.lastMux.srtWritten) =>
          (~job.lastMux.srtLeft /\ (job.lastMux.idx + 1) \notin job.subtitles)
    /\ ConcatFailed => ~job.manifestOnDisk

(***************************************************************************)
(* The claims about the number of calls and requests of the engine.        *)
(***************************************************************************)

\* The provider calls made in strategy attempt a.
CallsOfAttempt(a) == {i \in CallIndices : Calls[i].attempt = a}

\* C33: one call of generateVideoWithFallback makes at most two provider calls
\* in a strategy attempt, the primary provider first and then the direct API,
\* and at most six in all; the direct API is called only right after the
\* primary provider of the same attempt has failed, and a primary provider that
\* succeeds is the last call made.
C33_AtMostTwoProviderCallsPerAttempt ==
    /\ Len(Calls) <= 2 * maxStrategyAttempts
    /\ \A a \in 1..maxStrategyAttempts :
          /\ Cardinality(CallsOfAttempt(a)) <= 2
          /\ Cardinality({i \in CallsOfAttempt(a) : Calls[i].provider = "primary"}) <= 1
    /\ \A i \in CallIndices :
          /\ Calls[i].provider = "direct" =>
                /\ i > 1
                /\ Calls[i - 1].attempt = Calls[i].attempt
                /\ Calls[i - 1].provider = "primary"
                /\ Calls[i - 1].outcome = "failed"
          /\ Calls[i].outcome = "ok" => i = Len(Calls)

C33_Witness ==
    /\ Len(Calls) = 6 /\ kling.pc = "done"
    /\ Calls[6].provider = "direct" /\ Calls[6].outcome = "ok"
    /\ Calls[5].outcome = "failed"

\* The calls of makeAuthenticatedRequest that have ended.
HttpLog == kling.httpLog

\* C34: a call of makeAuthenticatedRequest sends at most three requests, each
\* one after the first only after the one before it failed; it returns on the
\* first response with nothing sent after it; it waits 2000 ms after the first
\* failure and 4000 ms after the second and does not wait after the third; and
\* after three failures it throws an error that carries the message of the
\* third.
C34_AtMostThreeRequests ==
    /\ kling.httpRequests <= maxRetries
    /\ kling.pc \in {"http", "httpSleep"} => kling.httpRequests = kling.httpAttempt
    /\ kling.pc = "http" => Len(kling.httpErrors) = kling.httpRequests - 1
    /\ kling.pc = "httpSleep" =>
          /\ kling.httpAttempt < maxRetries
          /\ Len(kling.httpErrors) = kling.httpAttempt
          /\ kling.httpAttempt = 1 => kling.httpDelay = 2000
          /\ kling.httpAttempt = 2 => kling.httpDelay = 4000
    /\ \A c \in 1..Len(HttpLog) :
          /\ HttpLog[c].outcome = "returned" =>
                /\ HttpLog[c].requests = Len(HttpLog[c].errors) + 1
                /\ HttpLog[c].requests <= 3
          /\ HttpLog[c].outcome = "thrown" =>
                /\ HttpLog[c].requests = 3
                /\ Len(HttpLog[c].errors) = 3
                /\ HttpLog[c].message =
                      <<"Kling AI request failed after 3 attempts", HttpLog[c].errors[3]>>

C34_Witness ==
    /\ Len(HttpLog) = 2
    /\ HttpLog[1].outcome = "thrown" /\ HttpLog[1].errors = <<"r1", "r1", "r2">>
    /\ HttpLog[2].outcome = "returned" /\ HttpLog[2].requests = 2

(***************************************************************************)
(* The claims about the records of the asynchronous jobs.                  *)
(***************************************************************************)

\* The ways the status of a job's record can have gone.
StatusHistories ==
    {<<>>, <<"processing">>, <<"processing", "completed">>, <<"processing", "failed">>}

\* Both updates to 'failed' of job j were rejected.
FailedUpdatesRejected(j) ==
    LET r == async[j].rejected
    IN Len(r) >= 2 /\ r[Len(r)] = "failed" /\ r[Len(r) - 1] = "failed"

\* C35 as stated: the record of a job goes from 'processing' to one terminal
\* status and stays there; 'completed' is set only when the pipeline returned;
\* when processAnimationAsync is over the record is terminal, and 'failed' if
\* the pipeline threw; a webhook that fails leaves the status as it was.
C35_OneTerminalStatus ==
    \A j \in AsyncJobs :
        /\ async[j].history \in StatusHistories
        /\ async[j].status = "completed" => async[j].pipeline = "returned"
        /\ async[j].pc = "done" =>
              /\ async[j].status \in {"completed", "failed"}
              /\ async[j].pipeline = "threw" => async[j].status = "failed"
        /\ async[j].webhook # "none" => Len(async[j].history) = 2

\* C35 with the database taken into account: the same, except that the record
\* stays 'processing' exactly when both updates to 'failed' were rejected, and
\* that a pipeline that returned ends 'completed' when no update was rejected
\* and 'failed' only after the update to 'completed' was rejected.
C35_OneTerminalStatusIfAccepted ==
    \A j \in AsyncJobs :
        /\ async[j].history \in StatusHistories
        /\ async[j].status = "completed" => async[j].pipeline = "returned"
        /\ async[j].pc = "done" =>
              /\ async[j].status \in {"processing", "completed", "failed"}
              /\ async[j].status = "processing" <=> FailedUpdatesRejected(j)
              /\ (async[j].pipeline = "threw" /\ ~FailedUpdatesRejected(j)) =>
                    async[j].status = "failed"
              /\ (async[j].pipeline = "returned" /\ async[j].rejected = <<>>) =>
                    async[j].status = "completed"
              /\ (async[j].pipeline = "returned" /\ async[j].status = "failed") =>
                    async[j].rejected[1] = "completed"
        /\ async[j].webhook # "none" =>
              /\ Len(async[j].history) = 2
              /\ async[j].pc = "done"

C35_Witness ==
    /\ async[1].pc = "done" /\ async[1].pipeline = "returned"
    /\ async[1].status = "completed" /\ async[1].webhook = "failed"
    /\ async[2].pc = "done" /\ async[2].pipeline = "threw"
    /\ async[2].status = "failed" /\ async[2].rejected = <<"failed">>

\* The Animation records with status 'completed' that job j has left: its
\* submission record if that is its status, and the record the pipeline saves.
CompletedRecords(j) ==
    (IF async[j].status = "completed" THEN 1 ELSE 0) + async[j].pipelineRecords

\* C36: a job that finished successfully leaves exactly one Animation record
\* with status 'completed', the one created at submission, and a job that
\* failed leaves no 'completed' record.
C36_OneCompletedRecord ==
    \A j \in AsyncJobs :
        async[j].pc = "done" =>
            /\ async[j].status = "completed" => CompletedRecords(j) = 1
            /\ async[j].status # "completed" => CompletedRecords(j) = 0

====
